---- MODULE Spec2Model ----
(***************************************************************************)
(* Model of sadist-proxy (app.js): the pool of puppeteer-controlled        *)
(* browser sessions, its token map, the periodic clean-up of old sessions  *)
(* and the per-session interceptor with its promise-per-URL cache.         *)
(*                                                                         *)
(* Node runs the program on one thread: every action below is one run of   *)
(* synchronous code, from a handler's entry or from the resumption of an   *)
(* await up to the next await.  Calls to the browser backend (dns lookup,  *)
(* connect, newPage, page.close) settle in separate steps and may reject.  *)
(*                                                                         *)
(* Three specifications share the actions and differ in the operations     *)
(* they interleave and in their bounds: Spec (creates and deletes racing   *)
(* for the slots), SpecReaper (the clock, the clean-up timer and the       *)
(* touches of accessedAt) and SpecInterceptor (one session's interceptor). *)
(***************************************************************************)
EXTENDS Integers, Sequences, FiniteSets, Bags, TLC

\* ------------------------------------------------------- configuration
\* config.browserPool.capacity, inactivityTimeout, liveTimeout (clock units)
Capacity == 2
InactivityTimeout == 1
LiveTimeout == 2
\* config.browserPool.scriptTimeout
ScriptTimeout == 2

\* ------------------------------------------------------------------ bounds
\* Spec: tokens drawn, createSession / deleteSession calls suspended at once
MaxTokens == 4
MaxCreating == 2
MaxDeleting == 2
\* SpecReaper: the same, and the largest value of the clock
ReaperTokens == 2
ReaperCreating == 1
ReaperDeleting == 2
MaxTime == 4
\* SpecInterceptor: getResponse calls and deleteSession calls suspended at
\* once, URLs and response objects
MaxCalls == 2
InterceptDeleting == 1
MaxUrls == 1
MaxResponses == 2
\* SpecGateway: tokens drawn, createSession / deleteSession / getResponse
\* calls suspended at once, 'response' events
GatewayTokens == 2
GatewayCreating == 1
GatewayDeleting == 1
GatewayCalls == 1
GatewayResponses == 1
\* SpecRelay and SpecPush: tokens drawn, createSession / deleteSession calls
\* suspended at once, websockets, message ids, relay promises pending at once,
\* 'response' events and the largest value of the clock
RelayTokens == 3
RelayCreating == 1
RelayDeleting == 2
MaxChannels == 2
MaxIds == 1
MaxRelays == 1
RelayResponses == 1
PushChannels == 1
RelayTime == 2
\* SpecLive: tokens drawn, createSession / deleteSession / getResponse calls
\* suspended at once, 'response' events and the largest value of the clock
LiveTokens == 2
LiveCreating == 1
LiveDeleting == 2
LiveCalls == 1
LiveResponses == 1
LiveTime == 4
\* SpecRewriter: elements of a document and names of the resources on a host
MaxElements == 2
MaxNames == 1

MaxOf(a, b) == IF a >= b THEN a ELSE b
Slots == 0 .. (Capacity - 1)
Tokens == 1 .. MaxOf(MaxOf(MaxTokens, ReaperTokens), RelayTokens)
Urls == 1 .. MaxUrls
Channels == 1 .. MaxOf(MaxChannels, PushChannels)
Ids == 1 .. MaxIds
\* the response objects: every 'response' event carries one of its own
Responses == 1 .. MaxResponses
NoSlot == -1
NoSession == 0
NoChannel == 0
\* a promise is pending, rejected with 'Request interrupted', or resolved
\* with a response object (a member of Responses)
Pending == 0
Interrupted == -1

\* the documents that are rewritten: a sequence of elements, each with a tag,
\* one attribute and the absolute URL that the attribute resolves to
Tags == {"a", "link", "img", "div"}
Attrs == {"href", "src"}
Schemes == {<<"h", "t", "t", "p">>, <<"h", "t", "t", "p", "s">>,
            <<"m", "a", "i", "l", "t", "o">>,
            <<"g", "i", "t", "+", "h", "t", "t", "p", "s">>}
\* a URL: scheme://x/name as the page wrote it (root 0, via ""), or
\* proxyroot/via/component where the component encodes scheme://x/name
Url(scheme, name) == [root |-> 0, via |-> "", enc |-> FALSE, scheme |-> scheme, name |-> name]
Refs == {Url(scheme, name) : scheme \in Schemes, name \in 1 .. MaxNames}
Elements == [tag : Tags, attr : Attrs, ref : Refs]
Documents == UNION {[1 .. n -> Elements] : n \in 0 .. MaxElements}
NoDocument == [root |-> 0, elements |-> << >>]

VARIABLES
  pool,                 \* pool[n]: the slot n of the array `pool`
  sessionToPoolNumber,  \* session token -> index in the pool, NoSlot when absent
  creating,             \* bag of suspended createSession calls [n, pc]
  deleting,             \* bag of suspended deleteSession calls [session, n, target]
  closed,               \* tokens whose page has been closed
  browsers,             \* tokens whose browser connection (obj.browser) is open
  nextToken,            \* the next token Math.random() yields
  now,                  \* Date.now()
  storage,              \* storage[t][url]: the cache of the interceptor of token t
  promises,             \* promises[p]: the state of the promise number p
  nextResponse,         \* the response object that the next 'response' event carries
  relays,               \* bag of relay commands [ch, session, id] whose promise is pending
  http,                 \* the HTTP request being served: its route, progress and answer
  doc,                  \* window.document of the page: its elements
  patched,              \* the document that getPatchedPageContent returned
  attached,             \* attached[t]: the websocket whose message bearing token t was handled last
  calls,                \* bag of suspended getResponse calls [itc, url, promise]
  last                  \* the operation that ran last, with its outcome

vars == <<pool, sessionToPoolNumber, creating, deleting, closed, browsers, nextToken, now,
          storage, promises, calls, nextResponse, relays, attached, http, doc, patched, last>>
poolVars == <<pool, sessionToPoolNumber, creating, deleting, closed, browsers, nextToken, now>>
interceptVars == <<storage, promises, calls, nextResponse>>
relayVars == <<relays, attached>>
gatewayVars == <<http>>
rewriterVars == <<doc, patched>>

\* what is kept of the operation that ran last: its name and outcome, the
\* response it returned or delivered, the interceptor and URL it worked on,
\* the status and body of the HTTP answer when it sent one, and the websocket
\* it sent a message to
Op(op, res) ==
  [op |-> op, res |-> res, val |-> 0, session |-> NoSession, url |-> 0, answer |-> "",
   status |-> 0, to |-> NoChannel]
OpOn(op, res, val, session, url) ==
  [op |-> op, res |-> res, val |-> val, session |-> session, url |-> url, answer |-> "",
   status |-> 0, to |-> NoChannel]

\* ------------------------------------------------------------- pool slots
\* an empty array element (undefined), the staked placeholder {}, a session
\* object; ws is the websocket stored in the object, NoChannel when it has none
Empty == [kind |-> "empty", session |-> NoSession, createdAt |-> 0, accessedAt |-> 0,
          ws |-> NoChannel]
Staked == [kind |-> "staked", session |-> NoSession, createdAt |-> 0, accessedAt |-> 0,
           ws |-> NoChannel]
SessionObject(session, t) ==
  [kind |-> "session", session |-> session, createdAt |-> t, accessedAt |-> t,
   ws |-> NoChannel]

\* !i in pool.findIndex((i) => !i): undefined is falsy, {} and objects are truthy
Falsy(slot) == slot.kind = "empty"

\* an index for createSession that is never -1
firstIndex ==
  IF \E n \in Slots : Falsy(pool[n])
    THEN CHOOSE n \in Slots : Falsy(pool[n]) /\ \A m \in Slots : m < n => ~Falsy(pool[m])
    ELSE Capacity - 1

\* pool.findIndex((i) => !i): the first free index, NoSlot (-1) when none
findIndex ==
  IF \E n \in Slots : Falsy(pool[n])
  THEN CHOOSE n \in Slots : Falsy(pool[n]) /\ \A m \in Slots : m < n => ~Falsy(pool[m])
  ELSE NoSlot

\* sessionToPoolNumber[session]: undefined (NoSlot) for a key that is absent,
\* as is the key `undefined` that a staked placeholder has for a token
Lookup(session) == IF session \in Tokens THEN sessionToPoolNumber[session] ELSE NoSlot

\* pool[n]: undefined for an n that is no index of the array
PoolAt(n) == IF n \in Slots THEN pool[n] ELSE Empty

\* the test of sessionObj(session): the token is mapped and its slot is truthy
sessionObjFound(session) ==
  /\ Lookup(session) # NoSlot
  /\ ~Falsy(pool[Lookup(session)])

\* sessionObj(session): the slot the token resolves to
sessionObj(session) == pool[sessionToPoolNumber[session]]

\* --------------------------------------------------------- the interceptor
\* storage[url] is absent, or an object with a promise (0: none) and a response
NoEntry == [present |-> FALSE, promise |-> 0, response |-> 0]
NoStorage == [u \in Urls |-> NoEntry]

\* the promises are told apart by a number; a promise that neither an entry
\* nor a suspended call refers to is garbage, and its number is used again
PromiseIds == 1 .. (MaxUrls + MaxCalls)
Referenced(p, st, cs) ==
  \/ \E t \in Tokens, u \in Urls : st[t][u].present /\ st[t][u].promise = p
  \/ \E c \in BagToSet(cs) : c.promise = p
Collect(ps, st, cs) == [p \in PromiseIds |-> IF Referenced(p, st, cs) THEN ps[p] ELSE Pending]
\* an entry whose promise is settled and awaited by no suspended call: resolve
\* and reject of that promise do nothing any more, and the entry is kept as
\* one without them
Forget(entry, ps, cs) ==
  IF /\ entry.present
     /\ entry.promise # 0
     /\ ps[entry.promise] # 0
     /\ \A c \in BagToSet(cs) : c.promise # entry.promise
  THEN [entry EXCEPT !.promise = 0] ELSE entry
\* new Promise(...): the number of the promise that getResponse makes
FreshPromise ==
  CHOOSE p \in PromiseIds :
    /\ ~Referenced(p, storage, calls)
    /\ \A q \in PromiseIds : q < p => Referenced(q, storage, calls)

\* a promise that every resolve and reject settles anew
SettleAnew(ps, p, v) == [ps EXCEPT ![p] = v]

\* resolve(v) and reject(e) of a promise settle it once; later calls do nothing
Settle(ps, p, v) == IF ps[p] = Pending THEN [ps EXCEPT ![p] = v] ELSE ps

\* clear(): value.reject('Request interrupted') for every entry that has one
RECURSIVE rejectFrom(_, _, _)
rejectFrom(u, st, ps) ==
  IF u > MaxUrls THEN ps
  ELSE rejectFrom(u + 1, st,
                  IF st[u].present /\ st[u].promise # 0
                  THEN Settle(ps, st[u].promise, Interrupted) ELSE ps)

\* clear() without its last statement
keepStorage(st, t) == st

\* clear(): this.storage = {}
clearStorage(st, t) == [st EXCEPT ![t] = NoStorage]

\* clear() of the interceptor of token t: the promises after it
clearPromises(st, ps, t) == rejectFrom(1, st[t], ps)

\* ------------------------------------------------------------ the gateway
\* requestHandler(request, response): no route matched yet, nothing written
NoRequest ==
  [method |-> "", path |-> "", session |-> NoSession, route |-> "none", stage |-> "idle",
   ran |-> 0, status |-> 0, body |-> "", ended |-> 0, failed |-> FALSE]

\* the request methods and the shapes of the request path that the routes'
\* regular expressions tell apart: /session, /<digits>/visit/..,
\* /<digits>/ref/.., /<digits>/fetch/.., /<digits> with or without another
\* tail, and a path that starts with neither
HttpMethods == {"GET", "POST", "DELETE"}
Paths == {"/session", "/N/visit/", "/N/ref/", "/N/fetch/", "/N", "/N/other", "/other"}

\* the handler.on(...) calls of the request listener, in their order
Routes ==
  << [name |-> "session", method |-> "GET",    paths |-> {"/session"}],
     [name |-> "visit",   method |-> "GET",    paths |-> {"/N/visit/"}],
     [name |-> "ref",     method |-> "GET",    paths |-> {"/N/ref/"}],
     [name |-> "fetch",   method |-> "*",      paths |-> {"/N/fetch/"}],
     [name |-> "delete",  method |-> "DELETE",
      paths |-> {"/N/visit/", "/N/ref/", "/N/fetch/", "/N", "/N/other"}] >>

\* on() that matches a request which an earlier route has taken already
matchAlways(h, route, method, path) ==
  (route.method = "*" \/ route.method = method) /\ path \in route.paths

\* let match = !this.isClosed && (method === '*' || method === request.method)
\*             && urlObj.pathname.match(path)
match(h, route, method, path) ==
  ~h.isClosed /\ (route.method = "*" \/ route.method = method) /\ path \in route.paths

\* on(path, method, makeResponse): a match marks the handler object and calls
\* respond, which closes it and calls makeResponse; ran lists the routes whose
\* makeResponse was called
on(h, route, method, path) ==
  IF match(h, route, method, path)
  THEN [isMatch |-> TRUE, isClosed |-> TRUE, ran |-> Append(h.ran, route.name)]
  ELSE h

\* the request listener calls on() for the routes from the i-th on
RECURSIVE dispatch(_, _, _, _)
dispatch(i, h, method, path) ==
  IF i > Len(Routes) THEN h
  ELSE dispatch(i + 1, on(h, Routes[i], method, path), method, path)

\* the handler object after the request listener has called every on()
dispatched(method, path) ==
  dispatch(1, [isMatch |-> FALSE, isClosed |-> FALSE, ran |-> << >>], method, path)

\* error(errorMessage): status 500, the message as JSON, response.end()
error(h, message) ==
  [h EXCEPT !.stage = "done", !.status = 500, !.body = message,
            !.ended = @ + 1, !.failed = TRUE]

\* respond() of an object that is not response-like: status 200, JSON
respondJson(h, text) ==
  [h EXCEPT !.stage = "done", !.status = 200, !.body = text, !.ended = @ + 1]

\* the request as its handler's promise is awaited
awaitHandler(h) == [h EXCEPT !.stage = "handler"]

\* respond() of a response-like object: its status and headers are written,
\* then buffer() or text() is called and awaited
respondLike(h) == [h EXCEPT !.stage = "body", !.status = 200]

\* response.end(...) in the callback of buffer() or text()
endBody(h) == [h EXCEPT !.stage = "done", !.ended = @ + 1]

\* an exception in a callback that nothing catches, or a promise rejected
\* with no handler (status() of null, text() or buffer() rejecting): the
\* process logs it, and nothing ends the response
unhandled(h) == [h EXCEPT !.stage = "hung", !.failed = TRUE]

\* fallback(): 404 and a body with request.url, unless a route closed the handler
fallback(h, path) ==
  [h EXCEPT !.stage = "done", !.status = 404,
            !.body = "Request does not match any handler: " \o path, !.ended = @ + 1]

Init ==
  /\ pool = [n \in Slots |-> Empty]
  /\ sessionToPoolNumber = [s \in Tokens |-> NoSlot]
  /\ creating = EmptyBag
  /\ deleting = EmptyBag
  /\ closed = {}
  /\ browsers = {}
  /\ nextToken = 1
  /\ now = 1
  /\ storage = [t \in Tokens |-> NoStorage]
  /\ promises = [p \in PromiseIds |-> Pending]
  /\ calls = EmptyBag
  /\ nextResponse = 1
  /\ relays = EmptyBag
  /\ attached = [t \in Tokens |-> NoChannel]
  /\ http = NoRequest
  /\ doc = << >>
  /\ patched = NoDocument
  /\ last = Op("init", "ok")

\* ---------------------------------------------------------- createSession
\* createSession up to its first await: find a free index, stake it
createSession(maxCreating) ==
  /\ BagCardinality(creating) < maxCreating
  /\ IF findIndex = NoSlot
     THEN /\ last' = Op("createSession", "No browser is available.")
          /\ UNCHANGED <<pool, creating>>
     ELSE /\ pool' = [pool EXCEPT ![findIndex] = Staked]
          /\ creating' = creating (+) SetToBag({[n |-> findIndex, pc |-> "connect"]})
          /\ last' = Op("createSession", "staked")
  /\ UNCHANGED <<sessionToPoolNumber, deleting, closed, browsers, nextToken, now>>
  /\ UNCHANGED interceptVars
  /\ UNCHANGED relayVars

\* ipifyBrowserUrl() and puppeteer.connect() resolved: browser.newPage() is called
createSessionConnected(c) ==
  /\ BagIn(c, creating)
  /\ c.pc = "connect"
  /\ creating' = (creating (-) SetToBag({c})) (+) SetToBag({[c EXCEPT !.pc = "newPage"]})
  /\ last' = Op("createSessionConnected", "ok")
  /\ UNCHANGED <<pool, sessionToPoolNumber, deleting, closed, browsers, nextToken, now>>
  /\ UNCHANGED interceptVars
  /\ UNCHANGED relayVars

\* dns lookup, connect or newPage rejected: the call ends with the error,
\* nothing after the await runs
createSessionReject(c) ==
  /\ BagIn(c, creating)
  /\ creating' = creating (-) SetToBag({c})
  /\ last' = Op("createSessionReject", c.pc)
  /\ UNCHANGED <<pool, sessionToPoolNumber, deleting, closed, browsers, nextToken, now>>
  /\ UNCHANGED interceptVars
  /\ UNCHANGED relayVars

\* browser.newPage() resolved: draw the token, fill the slot, map the token
createSessionPopulate(c, maxTokens) ==
  /\ BagIn(c, creating)
  /\ c.pc = "newPage"
  /\ nextToken <= maxTokens
  /\ pool' = [pool EXCEPT ![c.n] = SessionObject(nextToken, now)]
  /\ sessionToPoolNumber' = [sessionToPoolNumber EXCEPT ![nextToken] = c.n]
  /\ creating' = creating (-) SetToBag({c})
  /\ nextToken' = nextToken + 1
  /\ last' = Op("createSessionPopulate", "ok")
  /\ browsers' = browsers \cup {nextToken}
  /\ UNCHANGED <<deleting, closed, now>>
  /\ UNCHANGED interceptVars
  /\ UNCHANGED relayVars

\* ---------------------------------------------------------- deleteSession
\* the guard written n !== null, which undefined passes
IsNotNull(n) == TRUE

\* typeof n == 'number'
IsNumber(n) == n # NoSlot

\* deleteSession(session) up to its await: "noop" for an unmapped token,
\* "threw" when pool[n] is undefined (destructuring) or {} (page.close of
\* undefined), "closing" when page.close() has been called
deleteSessionOutcome(session) ==
  LET n == Lookup(session) IN
  IF ~IsNumber(n) THEN "noop"
  ELSE IF PoolAt(n).kind # "session" THEN "threw"
  ELSE "closing"

\* the suspended deleteSession calls after deleteSession(session) is called:
\* it holds n and the page and interceptor of the object found in pool[n]
deleteSessionCall(d, session) ==
  IF deleteSessionOutcome(session) = "closing"
  THEN d (+) SetToBag({[session |-> session,
                        n |-> sessionToPoolNumber[session],
                        target |-> pool[sessionToPoolNumber[session]].session]})
  ELSE d

\* delete pool[n]
DeletePool(p, d) == [p EXCEPT ![d.n] = Empty]

\* delete sessionToPoolNumber[session]
DeleteMapping(m, d) == [m EXCEPT ![d.session] = NoSlot]

\* page.close() resolved: clear the interceptor, remove slot and mapping
deleteSessionFinish(d) ==
  /\ BagIn(d, deleting)
  /\ deleting' = deleting (-) SetToBag({d})
  /\ closed' = closed \cup {d.target}
  /\ storage' = clearStorage(storage, d.target)
  /\ promises' = Collect(clearPromises(storage, promises, d.target), storage', calls)
  /\ pool' = DeletePool(pool, d)
  /\ sessionToPoolNumber' = DeleteMapping(sessionToPoolNumber, d)
  /\ last' = Op("deleteSessionFinish", "ok")
  /\ UNCHANGED <<creating, browsers, nextToken, now, calls, nextResponse>>
  /\ UNCHANGED relayVars

\* page.close() rejected: nothing after the await runs
deleteSessionReject(d) ==
  /\ BagIn(d, deleting)
  /\ deleting' = deleting (-) SetToBag({d})
  /\ last' = Op("deleteSessionReject", "rejected")
  /\ UNCHANGED <<pool, sessionToPoolNumber, creating, closed, browsers, nextToken, now>>
  /\ UNCHANGED interceptVars
  /\ UNCHANGED relayVars

\* DELETE /<session-id>: deleteSession(session) is called and not awaited,
\* the answer is { success: true }; res keeps what deleteSession itself did
routeDelete(session, maxDeleting) ==
  /\ BagCardinality(deleting) < maxDeleting
  /\ deleting' = deleteSessionCall(deleting, session)
  /\ last' = [Op("routeDelete", deleteSessionOutcome(session)) EXCEPT !.answer = "{success:true}"]
  /\ UNCHANGED <<pool, sessionToPoolNumber, creating, closed, browsers, nextToken, now>>
  /\ UNCHANGED interceptVars
  /\ UNCHANGED relayVars

\* ------------------------------------------------------------ the reaper
\* the clean-up condition asking for both thresholds to be passed
ExpiredOnBoth(obj) ==
  /\ ~Falsy(obj)
  /\ obj.accessedAt # 0 /\ now - obj.accessedAt > InactivityTimeout
  /\ obj.createdAt # 0 /\ now - obj.createdAt > LiveTimeout

\* the condition of the clean-up loop on one slot
Expired(obj) ==
  /\ ~Falsy(obj)
  /\ \/ obj.accessedAt # 0 /\ now - obj.accessedAt > InactivityTimeout
     \/ obj.createdAt # 0 /\ now - obj.createdAt > LiveTimeout

\* pool.forEach from index n on: deleteSession(obj.session) for the old ones
RECURSIVE reapFrom(_, _)
reapFrom(n, d) ==
  IF n >= Capacity THEN d
  ELSE reapFrom(n + 1, IF Expired(pool[n]) THEN deleteSessionCall(d, pool[n].session) ELSE d)

\* one tick of setInterval(..., 20000)
reap(maxDeleting) ==
  /\ BagCardinality(reapFrom(0, deleting)) <= maxDeleting
  /\ deleting' = reapFrom(0, deleting)
  /\ last' = Op("reap", IF deleting' = deleting THEN "none" ELSE "deleteSession")
  /\ UNCHANGED <<pool, sessionToPoolNumber, creating, closed, browsers, nextToken, now>>
  /\ UNCHANGED interceptVars
  /\ UNCHANGED relayVars

\* the clock advances
tick(maxTime) ==
  /\ now < maxTime
  /\ now' = now + 1
  /\ last' = Op("tick", "ok")
  /\ UNCHANGED <<pool, sessionToPoolNumber, creating, deleting, closed, browsers, nextToken>>
  /\ UNCHANGED interceptVars
  /\ UNCHANGED relayVars

\* ----------------------------------------------------------------- routes
\* GET /<session-id>/visit/<URL> up to its await: look the session up,
\* obj.accessedAt = Date.now(), interceptor.clear(), page.goto(url).
\* A staked placeholder is found and touched, and has no interceptor.
routeVisit(session) ==
  /\ IF ~sessionObjFound(session)
     THEN /\ last' = Op("routeVisit", "Session expired or non-existent.")
          /\ UNCHANGED <<pool, storage, promises>>
     ELSE /\ pool' = [pool EXCEPT ![sessionToPoolNumber[session]].accessedAt = now]
          /\ IF sessionObj(session).kind = "session"
             THEN /\ storage' = clearStorage(storage, sessionObj(session).session)
                  /\ promises' = Collect(clearPromises(storage, promises,
                                                      sessionObj(session).session),
                                        storage', calls)
                  /\ last' = Op("routeVisit", "goto")
             ELSE /\ last' = Op("routeVisit", "TypeError")
                  /\ UNCHANGED <<storage, promises>>
  /\ UNCHANGED <<sessionToPoolNumber, creating, deleting, closed, browsers, nextToken, now, calls,
               nextResponse>>
  /\ UNCHANGED relayVars

\* ------------------------------------------------------------ getResponse
\* !(url in this.storage)
NotInStorage(entry) == ~entry.present

\* this.storage[url] after the first block of getResponse, which makes the
\* entry and its promise p when the URL is not in the storage
getResponseEntry(entry, p) ==
  IF NotInStorage(entry)
  THEN [present |-> TRUE, promise |-> p, response |-> 0]
  ELSE entry

\* if (this.storage[url].response) return this.storage[url].response
Cached(entry) == entry.response # 0

\* GET /<session-id>/ref/<URL> up to its await: look the session up, call
\* interceptor.getResponse(url), which returns the cached response at once
\* or awaits the entry's promise.  A staked placeholder has no interceptor.
routeRef(session, url, maxCalls) ==
  /\ BagCardinality(calls) < maxCalls
  /\ IF ~sessionObjFound(session)
     THEN /\ last' = Op("routeRef", "Session expired or non-existent.")
          /\ UNCHANGED interceptVars
     ELSE IF sessionObj(session).kind # "session"
     THEN /\ last' = Op("routeRef", "TypeError")
          /\ UNCHANGED interceptVars
     ELSE LET t == sessionObj(session).session
              e == getResponseEntry(storage[t][url], FreshPromise)
          IN /\ storage' = [storage EXCEPT ![t][url] = e]
             /\ promises' = IF NotInStorage(storage[t][url])
                            THEN [promises EXCEPT ![e.promise] = Pending]
                            ELSE promises
             /\ IF Cached(e)
                THEN /\ last' = OpOn("routeRef", "cached", e.response, t, url)
                     /\ UNCHANGED calls
                ELSE /\ last' = OpOn("routeRef", "await", 0, t, url)
                     /\ calls' = calls (+) SetToBag({[itc |-> t, url |-> url,
                                                      promise |-> e.promise]})
  /\ UNCHANGED <<poolVars, nextResponse>>
  /\ UNCHANGED relayVars

\* this.storage[url].response = await promise: the entry was taken before the
\* await; it is written when it still is the entry that the storage holds
resumeEntry(entry, c, v) ==
  IF entry.present /\ entry.promise = c.promise
  THEN [entry EXCEPT !.response = v] ELSE entry

\* return this.storage[url].response: the storage is read again after the
\* await, and has no entry for the URL when clear() ran in between
returned(entry, c) ==
  IF entry.present
  THEN OpOn("getResponseResume", "returned", entry.response, c.itc, c.url)
  ELSE OpOn("getResponseResume", "TypeError", 0, c.itc, c.url)

\* a getResponse call resumes after its promise settled: it throws the
\* rejection, or it stores the response in the entry it took before the
\* await and returns what the storage holds for the URL
getResponseResume(c) ==
  /\ BagIn(c, calls)
  /\ promises[c.promise] # Pending
  /\ calls' = calls (-) SetToBag({c})
  /\ IF promises[c.promise] = Interrupted
     THEN /\ last' = OpOn("getResponseResume", "Request interrupted", 0, c.itc, c.url)
          /\ UNCHANGED storage
     ELSE /\ storage' = [storage EXCEPT ![c.itc][c.url] =
                            Forget(resumeEntry(@, c, promises[c.promise]), promises, calls')]
          /\ last' = returned(storage'[c.itc][c.url], c)
  /\ promises' = Collect(promises, storage', calls')
  /\ UNCHANGED <<poolVars, nextResponse>>
  /\ UNCHANGED relayVars

\* const obj = sessionObj(session); if ('ws' in obj) obj.ws.send(...): the
\* websocket that an event of the page of token t is sent to, and the outcome
\* of the event handler, which sessionObj makes throw
pushTo(t) == IF sessionObjFound(t) THEN sessionObj(t).ws ELSE NoChannel
pushOutcome(t) == IF sessionObjFound(t) THEN "ok" ELSE "Session expired or non-existent."

\* the page of token t emits 'request'
onRequest(t) ==
  /\ t < nextToken
  /\ t \notin closed
  /\ last' = [OpOn("onRequest", pushOutcome(t), 0, t, 0) EXCEPT !.to = pushTo(t)]
  /\ UNCHANGED <<poolVars, interceptVars, relayVars>>

\* (this.storage[url] ||= {}).response = response
onResponseEntry(entry, r) ==
  IF entry.present THEN [entry EXCEPT !.response = r]
  ELSE [present |-> TRUE, promise |-> 0, response |-> r]

\* the page of token t emits 'response' for url, with a response object of
\* its own: the response is stored and the entry's promise, if any, is resolved
onResponse(t, url, maxResponses) ==
  /\ nextResponse <= maxResponses
  /\ t < nextToken
  /\ t \notin closed
  /\ storage' = [storage EXCEPT ![t][url] = onResponseEntry(@, nextResponse)]
  /\ promises' = IF storage[t][url].present /\ storage[t][url].promise # 0
                 THEN Settle(promises, storage[t][url].promise, nextResponse) ELSE promises
  /\ nextResponse' = nextResponse + 1
  /\ last' = [OpOn("onResponse", pushOutcome(t), nextResponse, t, url) EXCEPT !.to = pushTo(t)]
  /\ UNCHANGED calls
  /\ UNCHANGED poolVars
  /\ UNCHANGED relayVars

\* ANY /<session-id>/fetch/<URL> up to its await: look the session up,
\* obj.accessedAt = Date.now(), then the request body and page.evaluate are
\* awaited.  The page of a staked placeholder is undefined.
routeFetch(session) ==
  /\ IF ~sessionObjFound(session)
     THEN /\ last' = Op("routeFetch", "Session expired or non-existent.")
          /\ UNCHANGED pool
     ELSE /\ pool' = [pool EXCEPT ![sessionToPoolNumber[session]].accessedAt = now]
          /\ last' = Op("routeFetch", IF sessionObj(session).kind = "session"
                                      THEN "evaluate" ELSE "TypeError")
  /\ UNCHANGED <<sessionToPoolNumber, creating, deleting, closed, browsers, nextToken, now>>
  /\ UNCHANGED <<interceptVars, relayVars>>

\* ---------------------------------------------------- requests, end to end
\* server.on('request'): the routes are tried, the handler of the matching
\* one runs up to its first await and is answered at once when it has thrown
\* or returned already; fallback() answers when no route matched
httpRequest(method, path, session, url, maxCreating, maxCalls, maxDeleting) ==
  /\ http = NoRequest
  /\ LET h == dispatched(method, path)
         r == [NoRequest EXCEPT !.method = method, !.path = path, !.session = session,
                                !.ran = Len(h.ran),
                                !.route = IF h.ran = << >> THEN "none" ELSE Head(h.ran)]
     IN IF ~h.isClosed
        THEN /\ http' = fallback(r, path)
             /\ last' = Op("fallback", "404")
             /\ UNCHANGED <<poolVars, interceptVars, relayVars>>
        ELSE CASE r.route = "session" ->
                    /\ createSession(maxCreating)
                    /\ http' = IF last'.res = "staked" THEN awaitHandler(r)
                               ELSE error(r, "Error: " \o last'.res)
               [] r.route = "visit" ->
                    /\ routeVisit(session)
                    /\ http' = IF last'.res = "goto" THEN awaitHandler(r)
                               ELSE error(r, last'.res)
               [] r.route = "ref" ->
                    /\ routeRef(session, url, maxCalls)
                    /\ http' = IF last'.res = "await" THEN awaitHandler(r)
                               ELSE IF last'.res = "cached" THEN respondLike(r)
                               ELSE error(r, last'.res)
               [] r.route = "fetch" ->
                    /\ routeFetch(session)
                    /\ http' = IF last'.res = "evaluate" THEN awaitHandler(r)
                               ELSE error(r, last'.res)
               [] r.route = "delete" ->
                    /\ routeDelete(session, maxDeleting)
                    /\ http' = respondJson(r, "{success:true}")
  /\ UNCHANGED rewriterVars

\* createSession returned: the session route answers with the token
sessionCreated(c, maxTokens) ==
  /\ createSessionPopulate(c, maxTokens)
  /\ http' = respondJson(http, "{session,endpoint,success:true}")
  /\ UNCHANGED rewriterVars

\* createSession rejected: error() answers
sessionFailed(c) ==
  /\ createSessionReject(c)
  /\ http' = error(http, "Error: " \o c.pc)
  /\ UNCHANGED rewriterVars

\* text() of getPatchedPageResponse: sessionObj(session) is looked up again
\* and page.evaluate is awaited
textStarts(session) == sessionObjFound(session) /\ sessionObj(session).kind = "session"

\* page.goto() settled: a rejection goes to error(); a response is answered
\* from its status and headers, and text() is called; page.goto() resolves
\* with null for some navigations, and response.status() then throws
gotoSettle(outcome) ==
  /\ http.route = "visit"
  /\ http.stage = "handler"
  /\ http' = IF outcome = "rejected" THEN error(http, "Error: navigation")
             ELSE IF outcome = "null" THEN unhandled(http)
             ELSE IF textStarts(http.session) THEN respondLike(http)
             ELSE unhandled(respondLike(http))
  /\ last' = Op("gotoSettle", outcome)
  /\ UNCHANGED <<poolVars, interceptVars, relayVars, rewriterVars>>

\* page.evaluate() of the fetch route settled: the result is answered, its
\* buffer() is resolved already; a rejection goes to error()
fetchSettle(outcome) ==
  /\ http.route = "fetch"
  /\ http.stage = "handler"
  /\ http' = IF outcome = "rejected" THEN error(http, "Error: evaluation")
             ELSE endBody(respondLike(http))
  /\ last' = Op("fetchSettle", outcome)
  /\ UNCHANGED <<poolVars, interceptVars, relayVars, rewriterVars>>

\* getResponse returned to the ref route, or threw: the response is answered
\* from its status and headers and buffer() is called; a rejection goes to
\* error(); status() of null throws
refSettle(c) ==
  /\ http.route = "ref"
  /\ http.stage = "handler"
  /\ getResponseResume(c)
  /\ http' = IF last'.res = "returned"
             THEN IF last'.val = 0 THEN unhandled(http) ELSE respondLike(http)
             ELSE error(http, last'.res)
  /\ UNCHANGED rewriterVars

\* response.buffer() of the ref route or page.evaluate() of text() settled
bodySettle(outcome) ==
  /\ http.stage = "body"
  /\ http' = IF outcome = "rejected" THEN unhandled(http) ELSE endBody(http)
  /\ last' = Op("bodySettle", outcome)
  /\ UNCHANGED <<poolVars, interceptVars, relayVars, rewriterVars>>

\* the request is over: the response has ended, or the client has given up
\* a request that is never answered; its handler object is dropped
requestOver ==
  /\ http.stage \in {"done", "hung"}
  /\ http' = NoRequest
  /\ last' = Op("requestOver", http.stage)
  /\ UNCHANGED <<poolVars, interceptVars, relayVars, rewriterVars>>

\* ------------------------------------------------------ the command relay
\* what a message asks for and how the call it makes ends: a method returning
\* a value, throwing (or missing), returning a promise; a target that is
\* neither page nor browser; a script returning a promise, or throwing; a
\* message with neither method nor script
WsCommands == {"method", "methodThrows", "methodPromise", "badTarget",
               "script", "scriptThrows", "bad"}
Methods == {"method", "methodThrows", "methodPromise", "badTarget"}
Scripts == {"script", "scriptThrows"}

\* obj.ws = ws and the assignments to obj.accessedAt in the try block
wsTouch(obj, ch, cmd) ==
  [obj EXCEPT !.ws = ch,
              !.accessedAt = IF cmd \in Methods THEN now
                             ELSE IF cmd \in Scripts THEN now + ScriptTimeout
                             ELSE @]

\* the message sent back from the handler's own run: page and browser of a
\* staked placeholder are undefined, so every method call on it throws
wsReply(obj, cmd) ==
  IF cmd = "bad" THEN "none"
  ELSE IF cmd \in {"methodThrows", "badTarget", "scriptThrows"} THEN "error"
  ELSE IF cmd \in Methods /\ obj.kind # "session" THEN "error"
  ELSE IF cmd = "method" THEN "result"
  ELSE "pending"

\* ws.on('message'): sessionObj(session) is called outside the try block, its
\* exception ends the handler; otherwise the websocket is stored in the
\* object, the command runs, and its outcome is sent or awaited
wsMessage(ch, session, id, cmd, maxRelays) ==
  /\ BagCardinality(relays) < maxRelays
  /\ IF ~sessionObjFound(session)
     THEN /\ last' = [OpOn("wsMessage", "uncaught", id, session, 0) EXCEPT !.to = NoChannel]
          /\ UNCHANGED <<pool, relays, attached>>
     ELSE /\ attached' = [attached EXCEPT ![session] = ch]
          /\ pool' = [pool EXCEPT ![sessionToPoolNumber[session]] = wsTouch(@, ch, cmd)]
          /\ last' = [OpOn("wsMessage", wsReply(sessionObj(session), cmd), id, session, 0)
                         EXCEPT !.to = IF wsReply(sessionObj(session), cmd) \in {"result", "error"}
                                       THEN ch ELSE NoChannel]
          /\ relays' = IF wsReply(sessionObj(session), cmd) = "pending"
                       THEN relays (+) SetToBag({[ch |-> ch, session |-> session, id |-> id]})
                       ELSE relays
  /\ UNCHANGED <<sessionToPoolNumber, creating, deleting, closed, browsers, nextToken, now>>
  /\ UNCHANGED interceptVars

\* result.then(sendResult, sendError): the promise of a relay command settles
relaySettle(r, type) ==
  /\ BagIn(r, relays)
  /\ relays' = relays (-) SetToBag({r})
  /\ last' = [OpOn("relaySettle", type, r.id, r.session, 0) EXCEPT !.to = r.ch]
  /\ UNCHANGED <<poolVars, interceptVars, attached>>

\* ------------------------------------------------------- specifications
\* creates and deletes racing for the slots
Next ==
  \/ createSession(MaxCreating) /\ UNCHANGED <<gatewayVars, rewriterVars>>
  \/ \E c \in BagToSet(creating) : createSessionConnected(c) /\ UNCHANGED <<gatewayVars, rewriterVars>>
  \/ \E c \in BagToSet(creating) : createSessionReject(c) /\ UNCHANGED <<gatewayVars, rewriterVars>>
  \/ \E c \in BagToSet(creating) : createSessionPopulate(c, MaxTokens) /\ UNCHANGED <<gatewayVars, rewriterVars>>
  \/ \E s \in 1 .. MaxTokens : routeDelete(s, MaxDeleting) /\ UNCHANGED <<gatewayVars, rewriterVars>>
  \/ \E d \in BagToSet(deleting) : deleteSessionFinish(d) /\ UNCHANGED <<gatewayVars, rewriterVars>>
  \/ \E d \in BagToSet(deleting) : deleteSessionReject(d) /\ UNCHANGED <<gatewayVars, rewriterVars>>

Spec == Init /\ [][Next]_vars

\* the clock, the clean-up timer and the touches of accessedAt
NextReaper ==
  \/ createSession(ReaperCreating) /\ UNCHANGED <<gatewayVars, rewriterVars>>
  \/ \E c \in BagToSet(creating) : createSessionConnected(c) /\ UNCHANGED <<gatewayVars, rewriterVars>>
  \/ \E c \in BagToSet(creating) : createSessionReject(c) /\ UNCHANGED <<gatewayVars, rewriterVars>>
  \/ \E c \in BagToSet(creating) : createSessionPopulate(c, ReaperTokens) /\ UNCHANGED <<gatewayVars, rewriterVars>>
  \/ \E d \in BagToSet(deleting) : deleteSessionFinish(d) /\ UNCHANGED <<gatewayVars, rewriterVars>>
  \/ \E d \in BagToSet(deleting) : deleteSessionReject(d) /\ UNCHANGED <<gatewayVars, rewriterVars>>
  \/ \E s \in 1 .. ReaperTokens : routeVisit(s) /\ UNCHANGED <<gatewayVars, rewriterVars>>
  \/ reap(ReaperDeleting) /\ UNCHANGED <<gatewayVars, rewriterVars>>
  \/ tick(MaxTime) /\ UNCHANGED <<gatewayVars, rewriterVars>>

SpecReaper == Init /\ [][NextReaper]_vars

\* one session's interceptor and the requests that read it: the runs start
\* where the first createSession has returned, with token 1 in slot 0
InitInterceptor ==
  /\ pool = [n \in Slots |-> IF n = 0 THEN SessionObject(1, 1) ELSE Empty]
  /\ sessionToPoolNumber = [s \in Tokens |-> IF s = 1 THEN 0 ELSE NoSlot]
  /\ creating = EmptyBag
  /\ deleting = EmptyBag
  /\ closed = {}
  /\ browsers = {1}
  /\ nextToken = 2
  /\ now = 1
  /\ storage = [t \in Tokens |-> NoStorage]
  /\ promises = [p \in PromiseIds |-> Pending]
  /\ calls = EmptyBag
  /\ nextResponse = 1
  /\ relays = EmptyBag
  /\ attached = [t \in Tokens |-> NoChannel]
  /\ http = NoRequest
  /\ doc = << >>
  /\ patched = NoDocument
  /\ last = Op("createSessionPopulate", "ok")

NextInterceptor ==
  \/ \E s \in 1 .. nextToken : routeDelete(s, InterceptDeleting) /\ UNCHANGED <<gatewayVars, rewriterVars>>
  \/ \E d \in BagToSet(deleting) : deleteSessionFinish(d) /\ UNCHANGED <<gatewayVars, rewriterVars>>
  \/ \E d \in BagToSet(deleting) : deleteSessionReject(d) /\ UNCHANGED <<gatewayVars, rewriterVars>>
  \/ \E s \in 1 .. nextToken : routeVisit(s) /\ UNCHANGED <<gatewayVars, rewriterVars>>
  \/ \E s \in 1 .. nextToken, u \in Urls : routeRef(s, u, MaxCalls) /\ UNCHANGED <<gatewayVars, rewriterVars>>
  \/ \E c \in BagToSet(calls) : getResponseResume(c) /\ UNCHANGED <<gatewayVars, rewriterVars>>
  \/ \E t \in 1 .. nextToken, u \in Urls : onResponse(t, u, MaxResponses) /\ UNCHANGED <<gatewayVars, rewriterVars>>

SpecInterceptor == InitInterceptor /\ [][NextInterceptor]_vars

\* the command relay of one session beside its visits, its deletes and the
\* clock: the runs start where the first createSession has returned
NextRelay ==
  \/ \E s \in 1 .. nextToken : routeDelete(s, RelayDeleting) /\ UNCHANGED <<gatewayVars, rewriterVars>>
  \/ \E d \in BagToSet(deleting) : deleteSessionFinish(d) /\ UNCHANGED <<gatewayVars, rewriterVars>>
  \/ \E d \in BagToSet(deleting) : deleteSessionReject(d) /\ UNCHANGED <<gatewayVars, rewriterVars>>
  \/ \E s \in 1 .. nextToken : routeVisit(s) /\ UNCHANGED <<gatewayVars, rewriterVars>>
  \/ tick(RelayTime) /\ UNCHANGED <<gatewayVars, rewriterVars>>
  \/ \E ch \in Channels, s \in 1 .. nextToken, id \in Ids, cmd \in WsCommands :
       wsMessage(ch, s, id, cmd, MaxRelays) /\ UNCHANGED <<gatewayVars, rewriterVars>>
  \/ \E r \in BagToSet(relays), type \in {"result", "error"} : relaySettle(r, type) /\ UNCHANGED <<gatewayVars, rewriterVars>>

SpecRelay == InitInterceptor /\ [][NextRelay]_vars

\* the websockets attached to the sessions and the page events sent to them,
\* beside creates and deletes
NextPush ==
  \/ createSession(RelayCreating) /\ UNCHANGED <<gatewayVars, rewriterVars>>
  \/ \E c \in BagToSet(creating) : createSessionConnected(c) /\ UNCHANGED <<gatewayVars, rewriterVars>>
  \/ \E c \in BagToSet(creating) : createSessionPopulate(c, RelayTokens) /\ UNCHANGED <<gatewayVars, rewriterVars>>
  \/ \E s \in 1 .. RelayTokens : routeDelete(s, RelayDeleting) /\ UNCHANGED <<gatewayVars, rewriterVars>>
  \/ \E d \in BagToSet(deleting) : deleteSessionFinish(d) /\ UNCHANGED <<gatewayVars, rewriterVars>>
  \/ \E ch \in 1 .. PushChannels, s \in 1 .. RelayTokens, id \in Ids, cmd \in WsCommands :
       wsMessage(ch, s, id, cmd, MaxRelays) /\ UNCHANGED <<gatewayVars, rewriterVars>>
  \/ \E r \in BagToSet(relays), type \in {"result", "error"} : relaySettle(r, type) /\ UNCHANGED <<gatewayVars, rewriterVars>>
  \/ \E t \in 1 .. RelayTokens : onRequest(t) /\ UNCHANGED <<gatewayVars, rewriterVars>>
  \/ \E t \in 1 .. RelayTokens, u \in Urls : onResponse(t, u, RelayResponses) /\ UNCHANGED <<gatewayVars, rewriterVars>>

SpecPush == Init /\ [][NextPush]_vars

\* the tokens that a path can carry in its first component, when it has
\* digits there, and the URLs that the ref route can find in its second
sessionsIn(path, tokens) == IF path \in {"/session", "/other"} THEN {NoSession} ELSE tokens
urlsIn(path) == IF path = "/N/ref/" THEN Urls ELSE {1}

\* one request at a time through the gateway, beside the deletes of other
\* clients and the events of the page: the runs start where the first
\* createSession has returned
NextGateway ==
  \/ \E m \in HttpMethods, p \in Paths :
       \E s \in sessionsIn(p, 1 .. nextToken), u \in urlsIn(p) :
         httpRequest(m, p, s, u, GatewayCreating, GatewayCalls, GatewayDeleting)
  \/ \E c \in BagToSet(creating) : createSessionConnected(c) /\ UNCHANGED <<gatewayVars, rewriterVars>>
  \/ \E c \in BagToSet(creating) : sessionFailed(c)
  \/ \E c \in BagToSet(creating) : sessionCreated(c, GatewayTokens)
  \/ \E outcome \in {"response", "null", "rejected"} : gotoSettle(outcome)
  \/ \E outcome \in {"result", "rejected"} : fetchSettle(outcome)
  \/ \E c \in BagToSet(calls) : refSettle(c)
  \/ \E outcome \in {"resolved", "rejected"} : bodySettle(outcome)
  \/ requestOver
  \/ \E s \in 1 .. nextToken : routeDelete(s, GatewayDeleting) /\ UNCHANGED <<gatewayVars, rewriterVars>>
  \/ \E d \in BagToSet(deleting) : deleteSessionFinish(d) /\ UNCHANGED <<gatewayVars, rewriterVars>>
  \/ \E d \in BagToSet(deleting) : deleteSessionReject(d) /\ UNCHANGED <<gatewayVars, rewriterVars>>
  \/ \E t \in 1 .. nextToken, u \in Urls : onResponse(t, u, GatewayResponses) /\ UNCHANGED <<gatewayVars, rewriterVars>>

SpecGateway == InitInterceptor /\ [][NextGateway]_vars

\* the gateway alone, the page of no session emitting events: a ref request
\* waits until a clear() interrupts it
NextRouter ==
  \/ \E m \in HttpMethods, p \in Paths :
       \E s \in sessionsIn(p, 1 .. nextToken), u \in urlsIn(p) :
         httpRequest(m, p, s, u, GatewayCreating, GatewayCalls, GatewayDeleting)
  \/ \E c \in BagToSet(creating) : createSessionConnected(c) /\ UNCHANGED <<gatewayVars, rewriterVars>>
  \/ \E c \in BagToSet(creating) : sessionFailed(c)
  \/ \E c \in BagToSet(creating) : sessionCreated(c, GatewayTokens)
  \/ \E outcome \in {"response", "null", "rejected"} : gotoSettle(outcome)
  \/ \E outcome \in {"result", "rejected"} : fetchSettle(outcome)
  \/ \E c \in BagToSet(calls) : refSettle(c)
  \/ \E outcome \in {"resolved", "rejected"} : bodySettle(outcome)
  \/ requestOver
  \/ \E s \in 1 .. nextToken : routeDelete(s, GatewayDeleting) /\ UNCHANGED <<gatewayVars, rewriterVars>>
  \/ \E d \in BagToSet(deleting) : deleteSessionFinish(d) /\ UNCHANGED <<gatewayVars, rewriterVars>>
  \/ \E d \in BagToSet(deleting) : deleteSessionReject(d) /\ UNCHANGED <<gatewayVars, rewriterVars>>

SpecRouter == InitInterceptor /\ [][NextRouter]_vars

\* the interceptors while the clean-up timer keeps ticking and the backend
\* answers every call: the runs start where the first createSession has
\* returned. The clock stops at LiveTime, so a session is populated only
\* while the clock can still pass its liveTimeout.
DeleteCalls == [session : 1 .. LiveTokens, n : Slots, target : 1 .. LiveTokens]
GetCalls == [itc : 1 .. LiveTokens, url : Urls, promise : PromiseIds]
liveTick == tick(LiveTime) /\ UNCHANGED <<gatewayVars, rewriterVars>>
liveReap == reap(LiveDeleting) /\ UNCHANGED <<gatewayVars, rewriterVars>>
liveConnected(c) == createSessionConnected(c) /\ UNCHANGED <<gatewayVars, rewriterVars>>
livePopulate(c) ==
  /\ now + LiveTimeout < LiveTime
  /\ createSessionPopulate(c, LiveTokens)
  /\ UNCHANGED <<gatewayVars, rewriterVars>>
liveFinish(d) == deleteSessionFinish(d) /\ UNCHANGED <<gatewayVars, rewriterVars>>
liveResume(c) == getResponseResume(c) /\ UNCHANGED <<gatewayVars, rewriterVars>>

NextLive ==
  \/ createSession(LiveCreating) /\ UNCHANGED <<gatewayVars, rewriterVars>>
  \/ \E c \in BagToSet(creating) : liveConnected(c)
  \/ \E c \in BagToSet(creating) : livePopulate(c)
  \/ \E s \in 1 .. nextToken : routeDelete(s, LiveDeleting) /\ UNCHANGED <<gatewayVars, rewriterVars>>
  \/ \E d \in BagToSet(deleting) : liveFinish(d)
  \/ \E s \in 1 .. nextToken, u \in Urls : routeRef(s, u, LiveCalls) /\ UNCHANGED <<gatewayVars, rewriterVars>>
  \/ \E c \in BagToSet(calls) : liveResume(c)
  \/ \E t \in 1 .. nextToken, u \in Urls : onResponse(t, u, LiveResponses) /\ UNCHANGED <<gatewayVars, rewriterVars>>
  \/ liveReap
  \/ liveTick

\* setInterval keeps firing, the clock advances, and puppeteer.connect(),
\* newPage() and page.close() resolve; a settled promise resumes its awaiters
FairLive ==
  /\ WF_vars(liveTick)
  /\ WF_vars(liveReap)
  /\ \A c \in [n : Slots, pc : {"connect", "newPage"}] :
       WF_vars(liveConnected(c)) /\ WF_vars(livePopulate(c))
  /\ \A d \in DeleteCalls : WF_vars(liveFinish(d))
  /\ \A c \in GetCalls : WF_vars(liveResume(c))

SpecLive == InitInterceptor /\ [][NextLive]_vars /\ FairLive

\* ------------------------------------------------------------ the rewriter
\* encodeURIComponent(ref): the URL becomes one path component
encodeURIComponent(ref) == [ref EXCEPT !.enc = TRUE]

\* proxyroot + '/ref/' + encodeURIComponent(ref), and the same with '/visit/'
Proxied(session, via, ref) == [encodeURIComponent(ref) EXCEPT !.root = session, !.via = via]

\* element.href and element.src are the URL of the attribute for the tags
\* that reflect it; on another tag the property is undefined, and assigning
\* it sets a property of the object that the serializer does not write
Reflects(tag, attr) == <<tag, attr>> \in {<<"a", "href">>, <<"link", "href">>, <<"img", "src">>}

\* refUrl.protocol
protocol(ref) == ref.scheme \o <<":">>

\* refUrl.protocol.match(/http[s]?/): the pattern is found anywhere in it
matchHttp(p) == \E i \in 1 .. (Len(p) - 3) : SubSeq(p, i, i + 3) = <<"h", "t", "t", "p">>

\* the loop over doc.querySelectorAll(':not(a)[href]')
patchHrefs(elements, session) ==
  [i \in DOMAIN elements |->
     LET e == elements[i] IN
     IF e.tag # "a" /\ e.attr = "href" /\ Reflects(e.tag, "href")
     THEN [e EXCEPT !.ref = Proxied(session, "ref", e.ref)] ELSE e]

\* the loop over doc.querySelectorAll('a[href]')
patchAnchors(elements, session) ==
  [i \in DOMAIN elements |->
     LET e == elements[i] IN
     IF e.tag = "a" /\ e.attr = "href" /\ matchHttp(protocol(e.ref))
     THEN [e EXCEPT !.ref = Proxied(session, "visit", e.ref)] ELSE e]

\* the loop over doc.querySelectorAll('*[src]')
patchSrcs(elements, session) ==
  [i \in DOMAIN elements |->
     LET e == elements[i] IN
     IF e.attr = "src" /\ Reflects(e.tag, "src")
     THEN [e EXCEPT !.ref = Proxied(session, "ref", e.ref)] ELSE e]

\* the script element that patches window.fetch to proxyroot + "/fetch/"
fetchScript(session) ==
  [tag |-> "script", attr |-> "text",
   ref |-> [root |-> session, via |-> "fetch", enc |-> FALSE, scheme |-> << >>, name |-> 0]]

\* getPatchedPageContent(session): sessionObj(session) throws for an unknown
\* token; the clone of the document is patched by the three loops, the script
\* is appended and the clone is serialized
getPatchedPageContent(session) ==
  /\ patched = NoDocument
  /\ IF sessionObjFound(session) /\ sessionObj(session).kind = "session"
     THEN /\ patched' = [root |-> session,
                         elements |-> Append(patchSrcs(patchAnchors(patchHrefs(doc, session),
                                                                    session), session),
                                             fetchScript(session))]
          /\ last' = OpOn("getPatchedPageContent", "serialized", 0, session, 0)
     ELSE /\ patched' = patched
          /\ last' = OpOn("getPatchedPageContent",
                          IF sessionObjFound(session) THEN "TypeError"
                          ELSE "Session expired or non-existent.", 0, session, 0)
  /\ UNCHANGED <<doc, poolVars, interceptVars, relayVars, gatewayVars>>

\* two sessions are live and the page of each shows some document
InitRewriter ==
  /\ pool = [n \in Slots |-> SessionObject(n + 1, 1)]
  /\ sessionToPoolNumber = [s \in Tokens |-> IF s <= Capacity THEN s - 1 ELSE NoSlot]
  /\ creating = EmptyBag
  /\ deleting = EmptyBag
  /\ closed = {}
  /\ browsers = 1 .. Capacity
  /\ nextToken = Capacity + 1
  /\ now = 1
  /\ storage = [t \in Tokens |-> NoStorage]
  /\ promises = [p \in PromiseIds |-> Pending]
  /\ calls = EmptyBag
  /\ nextResponse = 1
  /\ relays = EmptyBag
  /\ attached = [t \in Tokens |-> NoChannel]
  /\ http = NoRequest
  /\ doc \in Documents
  /\ patched = NoDocument
  /\ last = Op("createSessionPopulate", "ok")

NextRewriter == \E s \in 1 .. nextToken : getPatchedPageContent(s)

SpecRewriter == InitRewriter /\ [][NextRewriter]_vars

\* ----------------------------------------------------------------- claims
\* the tokens that sessionToPoolNumber holds
Mapped == {s \in Tokens : sessionToPoolNumber[s] # NoSlot}

\* C1: in every reachable state the slots that are not free (staked or
\* populated) are at most Capacity, and so are the tokens in the map.
C1_WithinCapacity ==
  /\ Cardinality({n \in Slots : ~Falsy(pool[n])}) <= Capacity
  /\ Cardinality(Mapped) <= Capacity

\* C2: the slot of every suspended createSession is staked for it alone: no
\* other suspended create has the same index and no session lives in it, so
\* that creates that overlap populate different indexes.
C2_CreatesHoldDistinctSlots ==
  \A c \in BagToSet(creating) :
    /\ CopiesIn(c, creating) = 1
    /\ \A c2 \in BagToSet(creating) : c2 # c => c2.n # c.n
    /\ pool[c.n].kind = "staked"

\* C3: every token t of the map, with value n, finds slot n populated with
\* the session whose token is t.
C3_TokenMapsToItsSlot ==
  \A t \in Mapped :
    /\ pool[sessionToPoolNumber[t]].kind = "session"
    /\ pool[sessionToPoolNumber[t]].session = t

\* the lookup of token t succeeds and yields the session made for t
LookupSucceeds(t) ==
  /\ sessionObjFound(t)
  /\ sessionObj(t).kind = "session"
  /\ sessionObj(t).session = t

\* C4: once the lookup of a token succeeds it keeps succeeding over every
\* step but the completion of a deleteSession called for that same token.
C4_LookupSurvivesOtherTokens ==
  [][\A t \in Tokens :
       (/\ LookupSucceeds(t)
        /\ ~(\E d \in BagToSet(deleting) : d.session = t /\ deleteSessionFinish(d)))
       => LookupSucceeds(t)']_vars

\* C5: the continuation of deleteSession(token) after page.close() changes no
\* slot but one that holds the session of that token.
C5_DeleteSparesOtherSlots ==
  [][\A d \in BagToSet(deleting) :
       deleteSessionFinish(d) =>
         \A n \in Slots :
           pool'[n] # pool[n] => (pool[n].kind = "session" /\ pool[n].session = d.session)]_vars

\* C6: deleteSession of a token that is not in the map changes neither the
\* pool, nor the map, nor an interceptor, nor the suspended calls, and throws
\* nothing; DELETE answers {success:true} for every token; and when a
\* deleteSession completes its token is out of the map, so that deleting it
\* again is that same no-op.
C6_DeleteIdempotent ==
  [][/\ \A s \in Tokens :
          routeDelete(s, InterceptDeleting) =>
            /\ last'.answer = "{success:true}"
            /\ Lookup(s) = NoSlot =>
                 /\ last'.res = "noop"
                 /\ UNCHANGED <<pool, sessionToPoolNumber, storage, promises, calls,
                                creating, deleting, closed>>
     /\ \A d \in BagToSet(deleting) :
          deleteSessionFinish(d) => Lookup(d.session)' = NoSlot]_vars

\* C6 happens: DELETE of a token that was never created has just run, while
\* the live session's interceptor holds an entry that a suspended call awaits
C6_Witness ==
  /\ last.op = "routeDelete"
  /\ last.res = "noop"
  /\ last.answer = "{success:true}"
  /\ \E u \in Urls : storage[1][u].present
  /\ calls # EmptyBag

\* the suspended deleteSession calls made for token t
RECURSIVE CountIn(_, _)
CountIn(S, b) ==
  IF S = {} THEN 0
  ELSE LET c == CHOOSE x \in S : TRUE IN CopiesIn(c, b) + CountIn(S \ {c}, b)
DeletesOf(b, t) == CountIn({d \in BagToSet(b) : d.session = t}, b)

\* C7: a tick of the clean-up timer calls deleteSession once for every
\* populated session idle for more than inactivityTimeout, whatever its age,
\* and for every one older than liveTimeout, however recently accessed, and
\* calls it for no session within both thresholds.
C7_ReapDeletesExpired ==
  [][reap(ReaperDeleting) =>
       \A n \in Slots :
         pool[n].kind = "session" =>
           LET t == pool[n].session
               idle == now - pool[n].accessedAt
               age == now - pool[n].createdAt
           IN /\ (idle > InactivityTimeout \/ age > LiveTimeout)
                   => DeletesOf(deleting', t) = DeletesOf(deleting, t) + 1
              /\ (idle <= InactivityTimeout /\ age <= LiveTimeout)
                   => DeletesOf(deleting', t) = DeletesOf(deleting, t)]_vars

\* C7 happens: the timer has just called deleteSession for a session that is
\* past liveTimeout and was accessed within inactivityTimeout, while the
\* session in the other slot, within both thresholds, has no delete pending
C7_Witness ==
  /\ last.op = "reap"
  /\ \E n, m \in Slots :
       /\ pool[n].kind = "session"
       /\ now - pool[n].createdAt > LiveTimeout
       /\ now - pool[n].accessedAt <= InactivityTimeout
       /\ DeletesOf(deleting, pool[n].session) = 1
       /\ pool[m].kind = "session"
       /\ now - pool[m].createdAt <= LiveTimeout
       /\ now - pool[m].accessedAt <= InactivityTimeout
       /\ DeletesOf(deleting, pool[m].session) = 0

\* the interceptor that GET /<session>/ref reads, NoSession when the route
\* answers without reading one
InterceptorOf(s) ==
  IF sessionObjFound(s) /\ sessionObj(s).kind = "session"
  THEN sessionObj(s).session ELSE NoSession

\* the entry that call c took before its await is the one the storage holds
HoldsEntryOf(c) ==
  /\ storage[c.itc][c.url].present
  /\ storage[c.itc][c.url].promise = c.promise

\* C8: an onResponse for a URL whose entry is pending fulfils, with its
\* response, the promise of every call suspended on that entry; a promise that
\* a suspended call awaits keeps the value it was settled with; each such call
\* resumes once (it leaves the suspended calls) and returns that response;
\* and getResponse on an entry that holds a response returns it at once,
\* making no promise and suspending no call.
C8_WaitersShareOneResponse ==
  [][/\ \A t \in Tokens, u \in Urls :
          onResponse(t, u, MaxResponses) =>
            \A c \in BagToSet(calls) :
              (c.itc = t /\ c.url = u /\ promises[c.promise] = Pending)
                => promises'[c.promise] = nextResponse
     /\ \A c \in BagToSet(calls) :
          (promises[c.promise] # Pending /\ BagIn(c, calls'))
            => promises'[c.promise] = promises[c.promise]
     /\ \A c \in BagToSet(calls) :
          (promises[c.promise] \in Responses /\ HoldsEntryOf(c) /\ getResponseResume(c))
            => /\ last'.res = "returned"
               /\ last'.val = promises[c.promise]
               /\ CopiesIn(c, calls') = CopiesIn(c, calls) - 1
               /\ BagCardinality(calls') = BagCardinality(calls) - 1
     /\ \A s \in Tokens, u \in Urls :
          (/\ InterceptorOf(s) # NoSession
           /\ storage[InterceptorOf(s)][u].response # 0
           /\ routeRef(s, u, MaxCalls))
            => /\ last'.res = "cached"
               /\ last'.val = storage[InterceptorOf(s)][u].response
               /\ UNCHANGED <<calls, promises>>
               /\ storage'[InterceptorOf(s)][u].promise = storage[InterceptorOf(s)][u].promise]_vars

\* C8 happens: of two calls suspended on one entry, one has just returned the
\* response and the other one, still suspended, has its promise fulfilled with
\* that same response
C8_Witness ==
  /\ last.op = "getResponseResume"
  /\ last.res = "returned"
  /\ last.val \in Responses
  /\ \E c \in BagToSet(calls) :
       /\ c.itc = last.session
       /\ c.url = last.url
       /\ HoldsEntryOf(c)
       /\ promises[c.promise] = last.val

\* interceptor.clear() of the interceptor of token t runs in this step
Clears(t) ==
  \/ \E s \in Tokens : InterceptorOf(s) = t /\ routeVisit(s)
  \/ \E d \in BagToSet(deleting) : d.target = t /\ deleteSessionFinish(d)

\* C9: clear() rejects the promise of every call suspended on a pending entry
\* of its interceptor and leaves the storage without entries; a call resumed
\* by the rejection throws 'Request interrupted' and writes nothing; and
\* getResponse for a URL that has no entry makes an entry with a new pending
\* promise, which no earlier call awaits, and suspends on it.
C9_ClearInterrupts ==
  [][/\ \A t \in Tokens :
          Clears(t) =>
            /\ storage'[t] = NoStorage
            /\ \A c \in BagToSet(calls) :
                 (c.itc = t /\ promises[c.promise] = Pending)
                   => (BagIn(c, calls') /\ promises'[c.promise] = Interrupted)
     /\ \A c \in BagToSet(calls) :
          (promises[c.promise] = Interrupted /\ getResponseResume(c))
            => (last'.res = "Request interrupted" /\ UNCHANGED storage)
     /\ \A s \in Tokens, u \in Urls :
          (/\ InterceptorOf(s) # NoSession
           /\ ~storage[InterceptorOf(s)][u].present
           /\ routeRef(s, u, MaxCalls))
            => LET e == storage'[InterceptorOf(s)][u] IN
               /\ last'.res = "await"
               /\ e.present /\ e.response = 0 /\ e.promise \in PromiseIds
               /\ promises'[e.promise] = Pending
               /\ \A c \in BagToSet(calls) : c.promise # e.promise
               /\ BagIn([itc |-> InterceptorOf(s), url |-> u, promise |-> e.promise], calls')]_vars

\* C9 happens: a call that clear() interrupted is still to resume, and a
\* getResponse for the same URL has just suspended on the new pending entry
C9_Witness ==
  /\ last.op = "routeRef"
  /\ last.res = "await"
  /\ \E c, c2 \in BagToSet(calls) :
       /\ c.itc = last.session /\ c.url = last.url
       /\ promises[c.promise] = Interrupted
       /\ c2.itc = last.session /\ c2.url = last.url
       /\ HoldsEntryOf(c2)
       /\ promises[c2.promise] = Pending

\* C10: when getResponse(url) has just returned the response r that the entry
\* holds, a step that leaves the entry in the storage (no clear()) leaves r in
\* it, so that the next getResponse(url) returns r again.
C10_CachedValueStable ==
  [][\A t \in Tokens, u \in Urls :
       (/\ last.op \in {"routeRef", "getResponseResume"}
        /\ last.res \in {"cached", "returned"}
        /\ last.session = t /\ last.url = u
        /\ storage[t][u].present
        /\ storage[t][u].response = last.val
        /\ last.val \in Responses
        /\ storage'[t][u].present)
       => storage'[t][u].response = last.val]_vars

\* C11: no step assigns the accessedAt of a session a value smaller than the
\* one it held: over every step that leaves a session in its slot, accessedAt
\* does not decrease.
C11_AccessedAtMonotone ==
  [][\A n \in Slots :
       (/\ pool[n].kind = "session"
        /\ pool'[n].kind = "session"
        /\ pool'[n].session = pool[n].session)
       => pool'[n].accessedAt >= pool[n].accessedAt]_vars

\* a relay command that fails in the handler's own run
FailsAtOnce(s, cmd) ==
  \/ ~sessionObjFound(s)
  \/ cmd \in {"methodThrows", "badTarget", "scriptThrows"}

\* C14: a relay message whose handling fails (its token resolves to no
\* session, its target is unknown, its method or script throws) is answered on
\* its websocket with an error message carrying its token and id; a method
\* that returns a value is answered with one result message carrying them; and
\* a promise that settles is answered with the result or the error likewise.
C14_RelayAnswersEveryMessage ==
  [][/\ \A ch \in Channels, s \in Tokens, id \in Ids, cmd \in WsCommands :
          wsMessage(ch, s, id, cmd, MaxRelays) =>
            /\ FailsAtOnce(s, cmd) =>
                 (last'.res = "error" /\ last'.to = ch /\ last'.session = s /\ last'.val = id)
            /\ (~FailsAtOnce(s, cmd) /\ cmd = "method") =>
                 (last'.res = "result" /\ last'.to = ch /\ last'.session = s /\ last'.val = id)
     /\ \A r \in BagToSet(relays), type \in {"result", "error"} :
          relaySettle(r, type) =>
            (last'.res = type /\ last'.to = r.ch /\ last'.session = r.session /\ last'.val = r.id)]_vars

\* C15: an event of the page of token t is sent to no websocket but the one
\* attached to t, which is the one whose message bearing t was handled last.
C15_EventsReachOwnChannel ==
  [][\A t \in Tokens :
       (onRequest(t) \/ \E u \in Urls : onResponse(t, u, RelayResponses))
       => (last'.to # NoChannel => last'.to = attached[t])]_vars

\* method and path of a request fit the i-th route
Fits(i, method, path) ==
  (Routes[i].method = "*" \/ Routes[i].method = method) /\ path \in Routes[i].paths

\* the request listener runs for this request in this step
Serves(method, path) ==
  \E s \in Tokens \cup {NoSession}, u \in Urls :
    httpRequest(method, path, s, u, GatewayCreating, GatewayCalls, GatewayDeleting)

\* C12: of the routes that fit a request, the handler of the first one in
\* registration order runs and no other, whatever stage that handler is left
\* in; when no route fits, the answer is 404 with a body naming the request
\* path, it is ended, and no handler has run (pool, map, interceptors and
\* suspended calls are as before).
C12_FirstMatchingRouteOnly ==
  [][\A method \in HttpMethods, path \in Paths :
       (http'.method = method /\ http'.path = path /\ Serves(method, path)) =>
         /\ http'.ran <= 1
         /\ \A i \in 1 .. Len(Routes) :
              (Fits(i, method, path) /\ \A j \in 1 .. (i - 1) : ~Fits(j, method, path))
                => (http'.ran = 1 /\ http'.route = Routes[i].name /\ http'.status # 404
                    /\ last'.op # "fallback")
         /\ (\A i \in 1 .. Len(Routes) : ~Fits(i, method, path))
              => /\ http'.ran = 0
                 /\ http'.status = 404
                 /\ http'.body = "Request does not match any handler: " \o path
                 /\ http'.ended = 1
                 /\ UNCHANGED <<poolVars, interceptVars, relayVars>>]_vars

\* C12 happens: a DELETE request for /<digits>/fetch/.., which the fetch route
\* and the delete route both fit, has run the fetch handler, still suspended
C12_Witness ==
  /\ http.method = "DELETE"
  /\ http.path = "/N/fetch/"
  /\ http.route = "fetch"
  /\ http.ran = 1
  /\ http.stage = "handler"
  /\ deleting = EmptyBag

\* C13: a matched request whose operation fails is answered 500 with the
\* error message and ended; a request that matched no route is answered 404.
C13_FailuresAnswered500 ==
  [][/\ (http'.failed /\ ~http.failed)
          => (http'.status = 500 /\ http'.ended = 1 /\ http'.body # "")
     /\ (http'.route = "none" /\ http'.stage = "done") => http'.status = 404]_vars

\* C16: GET /session when no slot is free is answered 500 with the message of
\* the error, and the step changes neither the pool nor the token map and
\* starts no createSession call on the backend.
C16_FullPoolRefusesCreate ==
  [][(Serves("GET", "/session") /\ \A n \in Slots : ~Falsy(pool[n]))
       => /\ http'.status = 500
          /\ http'.body = "Error: No browser is available."
          /\ http'.ended = 1
          /\ UNCHANGED <<pool, sessionToPoolNumber, creating, deleting, closed, browsers, nextToken>>
          /\ UNCHANGED <<interceptVars, relayVars>>]_vars

\* C16 happens: GET /session has just been refused while both slots hold a
\* session
C16_Witness ==
  /\ http.route = "session"
  /\ http.status = 500
  /\ http.body = "Error: No browser is available."
  /\ last.op = "createSession"
  /\ \A n \in Slots : pool[n].kind = "session"
  /\ creating = EmptyBag

\* C18: a tick of the clean-up timer calls deleteSession for a populated
\* session whose age equals liveTimeout, and for one whose idle time equals
\* inactivityTimeout.
C18_ReapAtThreshold ==
  [][reap(ReaperDeleting) =>
       \A n \in Slots :
         (/\ pool[n].kind = "session"
          /\ \/ now - pool[n].createdAt = LiveTimeout
             \/ now - pool[n].accessedAt = InactivityTimeout)
           => DeletesOf(deleting', pool[n].session) = DeletesOf(deleting, pool[n].session) + 1]_vars

\* C19: when deleteSession of a session completes, every getResponse call
\* pending on its interceptor has been rejected, its page is closed and the
\* browser connection that createSession opened for it is open no longer.
C19_DeleteReleasesHandles ==
  [][\A d \in BagToSet(deleting) :
       deleteSessionFinish(d) =>
         /\ \A c \in BagToSet(calls) :
              (c.itc = d.target /\ promises[c.promise] = Pending)
                => promises'[c.promise] = Interrupted
         /\ d.target \in closed'
         /\ d.target \notin browsers']_vars

\* C20: a createSession call that fails after staking its slot leaves the
\* slot free again.
C20_FailedCreateFreesSlot ==
  [][\A c \in BagToSet(creating) :
       createSessionReject(c) => Falsy(pool'[c.n])]_vars

\* C17: in the document that the rewriter returns, the reference of every
\* non-anchor element whose href or src the page resolves is
\* proxyroot/ref/enc(absolute URL), the reference of every anchor with an
\* http or https reference is proxyroot/visit/enc(absolute URL), every other
\* element is as it was, and one fetch-patching script is added.
C17_RewriterMapsReferences ==
  patched # NoDocument =>
    LET out == patched.elements
        plain == <<"h", "t", "t", "p">>
        secure == <<"h", "t", "t", "p", "s">>
    IN /\ Len(out) = Len(doc) + 1
       /\ Cardinality({i \in DOMAIN out : out[i].tag = "script" /\ out[i].ref.via = "fetch"}) = 1
       /\ \A i \in DOMAIN doc :
            LET e == doc[i] IN
            IF e.tag # "a" /\ Reflects(e.tag, e.attr)
              THEN out[i] = [e EXCEPT !.ref = Proxied(patched.root, "ref", e.ref)]
            ELSE IF e.tag = "a" /\ e.attr = "href" /\ e.ref.scheme \in {plain, secure}
              THEN out[i] = [e EXCEPT !.ref = Proxied(patched.root, "visit", e.ref)]
            ELSE out[i] = e

\* C21: every suspended getResponse call resumes at last, with a response or
\* with a rejection, while the clean-up timer keeps ticking and the backend
\* answers every call.
C21_GetResponseCompletes ==
  \A c \in GetCalls : BagIn(c, calls) ~> ~BagIn(c, calls)

\* C22: a request whose handler and body producer have settled has had its
\* response ended exactly once.
C22_AnsweredExactlyOnce ==
  http.stage \in {"done", "hung"} => http.ended = 1

====
